---- MODULE Spec2Model ----
(***************************************************************************)
(* OpenGraph (openmsimodel/graph/open_graph.py): building a directed graph *)
(* from GEMD records, attaching their attributes, slicing sub-graphs and   *)
(* writing the .svg/.dot artifacts.                                        *)
(*                                                                         *)
(* Conventions of the translation                                          *)
(*  - a Python dict is a TLA+ function/record; "k in d" is k \in DOMAIN d; *)
(*  - a None path is the string Null, a None link the record NoneLink;     *)
(*  - a Python str entry of a collection is the record [pystr |-> s];      *)
(*  - a type string "process_run" is the record                            *)
(*    [prefix |-> "process", suffix |-> "run"]: startswith/endswith test   *)
(*    these two fields;                                                    *)
(*  - a node attribute value is StrVal(s) (a Python str) or DictVal(m)     *)
(*    (a Python dict from int to str);                                     *)
(*  - a call that can raise returns [G |-> graph so far, raised |-> BOOL]. *)
(***************************************************************************)
EXTENDS Integers, Sequences, FiniteSets, TLC

VARIABLES
    pc,             \* position of the running program
    G,              \* the networkx DiGraph being built / sliced
    args,           \* arguments of build_graph (and of the command line)
    source,         \* what read_gemd_data returns for self.dirpath
    name_mapping,   \* build_graph's local name_mapping
    nb_disregarded, \* build_graph's local nb_disregarded
    relabeled_G,    \* the relabeled copy handed to the renderer
    files,          \* artifact files written by the current pass
    paths,          \* self.svg_path / self.dot_path
    diag,           \* what diagnostics printed for the current call (or Null)
    ret,            \* return value of the latest build_graph call
    first,          \* return value and diagnostics of the first call
    call,           \* number of build_graph calls started on this OpenGraph
    identifier_G,   \* the identifier-scoped sub-graph of run_from_command_line
    fed,            \* handle_gemd_value: the entries handled so far
    node_name,      \* handle_gemd_value: its local node_name
    before,         \* handle_gemd_value: the graph before the latest entry
    sl,             \* slice_subgraph: its arguments and its result
    cc,             \* get_strongly_cc / get_weakly_cc: node and results
    live            \* liveGrapher: mapping, open_graphs, events handled

vars == <<pc, G, args, source, name_mapping, nb_disregarded, relabeled_G, files,
          paths, diag, ret, first, call, identifier_G, fed, node_name, before, sl,
          cc, live>>

Null == "<None>"
Unbound == "<unbound local>"

(***************************************************************************)
(* networkx.DiGraph                                                        *)
(***************************************************************************)
NoAttrs == [x \in {} |-> Null]

EmptyGraph == [nodes |-> {}, attrs |-> NoAttrs, edges |-> {}]

StrVal(s) == [kind |-> "str", str |-> s, map |-> NoAttrs]

DictVal(m) == [kind |-> "dict", str |-> "", map |-> m]

AttrsOf(g, n) == IF n \in g.nodes THEN g.attrs[n] ELSE NoAttrs

\* G.add_node(n, **kw): creates n or updates the attributes of an existing n
add_node(g, n, kw) ==
    [nodes |-> g.nodes \cup {n},
     attrs |-> (n :> (kw @@ AttrsOf(g, n))) @@ g.attrs,
     edges |-> g.edges]

\* G.add_edge(u, v): creates u and v when they are not nodes yet
add_edge(g, u, v) ==
    LET g1 == add_node(g, u, NoAttrs)
        g2 == add_node(g1, v, NoAttrs)
    IN  [g2 EXCEPT !.edges = @ \cup {<<u, v>>}]

\* G.nodes[uid][att_name] = value
SetAttr(g, uid, att_name, value) ==
    [g EXCEPT !.attrs[uid] = (att_name :> value) @@ @]

Ok(g) == [G |-> g, raised |-> FALSE]

Raise(g) == [G |-> g, raised |-> TRUE]

(***************************************************************************)
(* add_to_graph                                                            *)
(***************************************************************************)
\* variant: the "already exists" branch always writes index 0
add_to_graph_overwrite(g, uid, name, att_name, add_separate_node) ==
    IF add_separate_node
    THEN Ok(add_edge(add_node(g, name,
                [shape |-> StrVal("rectangle"), color |-> StrVal("orange")]),
                uid, name))
    ELSE IF att_name \in DOMAIN g.attrs[uid]
         THEN IF g.attrs[uid][att_name].kind = "dict"
              THEN Ok(SetAttr(g, uid, att_name, DictVal(0 :> name)))
              ELSE Raise(g)
         ELSE IF att_name \in {"file_links", "tags"}
              THEN Ok(SetAttr(g, uid, att_name, DictVal(0 :> name)))
              ELSE Ok(SetAttr(g, uid, att_name, StrVal(name)))

add_to_graph(g, uid, name, att_name, add_separate_node) ==
    IF add_separate_node
    THEN Ok(add_edge(add_node(g, name,
                [shape |-> StrVal("rectangle"), color |-> StrVal("orange")]),
                uid, name))
    ELSE IF att_name \in DOMAIN g.attrs[uid]
         THEN \* count = len(old); old[count] = name: a str has no item
              \* assignment (TypeError), a dict gets the key count
              LET old == g.attrs[uid][att_name]
                  count == Cardinality(DOMAIN old.map)
              IN  IF old.kind = "dict"
                  THEN Ok(SetAttr(g, uid, att_name,
                                  DictVal((count :> name) @@ old.map)))
                  ELSE Raise(g)
         ELSE IF att_name \in {"file_links", "tags"}
              THEN Ok(SetAttr(g, uid, att_name, DictVal(0 :> name)))
              ELSE Ok(SetAttr(g, uid, att_name, StrVal(name)))

(***************************************************************************)
(* handle_gemd_value                                                       *)
(***************************************************************************)
IsStr(att) == "pystr" \in DOMAIN att

\* "::" in att, for the tag strings of the model
HasSeparator(s) == s \in {"batch::1", "batch::2"}

SupportedValueTypes ==
    {"nominal_real", "nominal_integer", "uniform_real", "uniform_integer",
     "empirical_formula", "normal_real", "nominal_categorical",
     "nominal_composition"}

\* the eight "{}, ...".format(...) rules; numbers are rendered by ToString
FormatValue(att_name, value) ==
    CASE value.type = "nominal_real" ->
            att_name \o ", " \o ToString(value.nominal) \o " " \o value.units
      [] value.type = "nominal_integer" ->
            att_name \o ", " \o ToString(value.nominal)
      [] value.type = "uniform_real" ->
            att_name \o ", " \o ToString(value.lower_bound) \o "-"
                     \o ToString(value.upper_bound) \o " " \o value.units
      [] value.type = "uniform_integer" ->
            att_name \o ", " \o ToString(value.lower_bound) \o "-"
                     \o ToString(value.upper_bound)
      [] value.type = "empirical_formula" ->
            att_name \o ", " \o value.formula \o ", " \o value.type
      [] value.type = "normal_real" ->
            att_name \o ", mean " \o ToString(value.mean) \o ", std "
                     \o ToString(value.std) \o ", " \o value.units \o ", "
                     \o value.type
      [] value.type = "nominal_categorical" ->
            att_name \o ", " \o value.category
      [] value.type = "nominal_composition" ->
            att_name \o ", " \o value.quantities

AttValue(att) ==
    IF att.type = "property_and_conditions" THEN att.property.value ELSE att.value

AttName(att) ==
    IF att.type = "property_and_conditions" THEN att.property.name ELSE att.name

\* variant: tags and file links follow the caller's add_separate_node
InlinePlacement_passed(add_separate_node) == add_separate_node

\* the literal add_separate_node=False of the tag and file-link calls
InlinePlacement(add_separate_node) == FALSE

\* one iteration of the loop "for att in assets"; st carries the graph, the
\* local node_name and whether an exception was raised
handle_att(st, uid, att, add_separate_node) ==
    IF st.raised THEN st
    ELSE IF IsStr(att)
    THEN IF HasSeparator(att.pystr)
         THEN LET r == add_to_graph(st.G, uid, att.pystr, "tags",
                                  InlinePlacement(add_separate_node))
              IN  [st EXCEPT !.G = r.G, !.raised = r.raised]
         ELSE st
    ELSE IF att.type = "" THEN st
    ELSE IF att.type = "file_link"
    THEN LET r == add_to_graph(st.G, uid, att.url, "file_links",
                             InlinePlacement(add_separate_node))
         IN  [st EXCEPT !.G = r.G, !.raised = r.raised]
    ELSE LET value == AttValue(att)
             att_name == AttName(att)
             name == IF value.type \in SupportedValueTypes
                     THEN FormatValue(att_name, value)
                     ELSE st.node_name   \* no branch assigns node_name
         IN  IF name = Unbound
             THEN [st EXCEPT !.raised = TRUE]   \* UnboundLocalError
             ELSE LET r == add_to_graph(st.G, uid, name, att_name,
                                        add_separate_node)
                  IN  [G |-> r.G, node_name |-> name, raised |-> r.raised]

RECURSIVE handle_gemd_value_from(_, _, _, _, _)
handle_gemd_value_from(st, uid, assets, k, add_separate_node) ==
    IF k > Len(assets) THEN st
    ELSE handle_gemd_value_from(
             handle_att(st, uid, assets[k], add_separate_node),
             uid, assets, k + 1, add_separate_node)

handle_gemd_value(r, uid, assets, add_separate_node) ==
    IF r.raised THEN r
    ELSE LET st == handle_gemd_value_from(
                       [G |-> r.G, node_name |-> Unbound, raised |-> FALSE],
                       uid, assets, 1, add_separate_node)
         IN  [G |-> st.G, raised |-> st.raised]

(***************************************************************************)
(* add_gemd_assets, handle_gemd_obj                                        *)
(***************************************************************************)
\* the collections add_gemd_assets hands to handle_gemd_value, in the order
\* of its five "if" statements
AssetCollections(obj_data, assets_to_add) ==
    (IF assets_to_add.add_attributes /\ "parameters" \in DOMAIN obj_data
     THEN <<obj_data.parameters>> ELSE <<>>)
    \o (IF assets_to_add.add_attributes /\ "properties" \in DOMAIN obj_data
        THEN <<obj_data.properties>> ELSE <<>>)
    \o (IF assets_to_add.add_attributes /\ "conditions" \in DOMAIN obj_data
        THEN <<obj_data.conditions>> ELSE <<>>)
    \o (IF assets_to_add.add_file_links /\ "file_links" \in DOMAIN obj_data
        THEN <<obj_data.file_links>> ELSE <<>>)
    \o (IF assets_to_add.add_tags /\ "tags" \in DOMAIN obj_data
        THEN <<obj_data.tags>> ELSE <<>>)

RECURSIVE handle_collections_from(_, _, _, _, _)
handle_collections_from(r, uid, collections, k, add_separate_node) ==
    IF k > Len(collections) THEN r
    ELSE handle_collections_from(
             handle_gemd_value(r, uid, collections[k], add_separate_node),
             uid, collections, k + 1, add_separate_node)

add_gemd_assets(g, uid, obj_data, assets_to_add, add_separate_node) ==
    handle_collections_from(Ok(g), uid,
        AssetCollections(obj_data, assets_to_add), 1, add_separate_node)

\* None as the value of a link field
NoneLink == [none |-> TRUE]

\* truthiness of obj_data[key] for a link field that is present
Truthy(link) == "id" \in DOMAIN link

\* obj_data[key]["id"] raises KeyError when key is missing and TypeError
\* when the value is None
CanSubscriptId(obj_data, key) ==
    key \in DOMAIN obj_data /\ Truthy(obj_data[key])

StartsWith(obj_type, prefix) == obj_type.prefix = prefix

EndsWith(obj_type, which) == obj_type.suffix = which

\* variant: the ingredient's structural edges are added the other way round
IngredientEdges_reversed(g, uid, process) == add_edge(g, process, uid)

\* G.add_edge(uid, process) of the ingredient branch
IngredientEdges(g, uid, process) == add_edge(g, uid, process)

handle_gemd_obj(g, uid, obj_data, obj_type, which, assets_to_add, add_separate_node) ==
    IF StartsWith(obj_type, "process")
    THEN IF EndsWith(obj_type, which)
         THEN add_gemd_assets(add_node(g, uid, [color |-> StrVal("red")]),
                              uid, obj_data, assets_to_add, add_separate_node)
         ELSE Ok(g)
    ELSE IF StartsWith(obj_type, "ingredient")
    THEN IF EndsWith(obj_type, which)
         THEN LET g1 == add_node(g, uid, [color |-> StrVal("blue")])
              IN  IF ~CanSubscriptId(obj_data, "process")
                  THEN Raise(g1)
                  ELSE LET g2 == IngredientEdges(g1, uid, obj_data.process.id)
                           r == add_gemd_assets(g2, uid, obj_data,
                                    assets_to_add, add_separate_node)
                       IN  IF r.raised THEN r
                           ELSE IF "material" \in DOMAIN obj_data
                                   /\ Truthy(obj_data.material)
                           THEN Ok(add_edge(r.G, obj_data.material.id, uid))
                           ELSE r
         ELSE Ok(g)
    ELSE IF StartsWith(obj_type, "material")
    THEN IF EndsWith(obj_type, which)
         THEN LET r == add_gemd_assets(
                           add_node(g, uid, [color |-> StrVal("green")]),
                           uid, obj_data, assets_to_add, add_separate_node)
              IN  IF r.raised THEN r
                  ELSE IF "process" \notin DOMAIN obj_data
                  THEN Raise(r.G)      \* obj_data["process"]: KeyError
                  ELSE IF Truthy(obj_data.process)
                  THEN Ok(add_edge(r.G, obj_data.process.id, uid))
                  ELSE r
         ELSE Ok(g)
    ELSE IF StartsWith(obj_type, "measurement")
    THEN IF EndsWith(obj_type, which)
         THEN LET r == add_gemd_assets(
                           add_node(g, uid, [color |-> StrVal("purple")]),
                           uid, obj_data, assets_to_add, add_separate_node)
              IN  IF r.raised THEN r
                  ELSE IF "material" \in DOMAIN obj_data
                          /\ Truthy(obj_data.material)
                  THEN Ok(add_edge(r.G, uid, obj_data.material.id))
                  ELSE r
         ELSE Ok(g)
    ELSE Ok(g)

(***************************************************************************)
(* build_graph: the loop over gemd_objects                                 *)
(***************************************************************************)
\* obj_uid[:3] for the identifiers of the model
First3(obj_uid) ==
    CASE obj_uid \in {"lab-p1", "lab-p2", "lab-m1", "lab-ps1"} -> "lab"
      [] OTHER -> obj_uid

Disregarded(obj_type) ==
    \/ StartsWith(obj_type, "parameter")
    \/ StartsWith(obj_type, "condition")
    \/ StartsWith(obj_type, "property")

\* one iteration of "for i, obj in enumerate(gemd_objects)"
add_object(st, obj, a) ==
    IF st.raised THEN st
    ELSE IF "raw_jsons" \in DOMAIN obj THEN st
    ELSE IF "pylist" \in DOMAIN obj THEN st
    ELSE IF Disregarded(obj.type)
    THEN [st EXCEPT !.nb_disregarded = @ + 1]
    ELSE IF a.uuid_to_track \notin DOMAIN obj.uids THEN st
    ELSE LET obj_uid == obj.uids[a.uuid_to_track]
             label == obj.name \o ",  " \o First3(obj_uid)
             r == handle_gemd_obj(st.G, obj_uid, obj, obj.type, a.which,
                                  a.assets_to_add, a.add_separate_node)
         IN  [G |-> r.G,
              name_mapping |-> (obj_uid :> label) @@ st.name_mapping,
              nb_disregarded |-> st.nb_disregarded,
              raised |-> r.raised]

RECURSIVE add_objects_from(_, _, _, _)
add_objects_from(st, gemd_objects, k, a) ==
    IF k > Len(gemd_objects) THEN st
    ELSE add_objects_from(add_object(st, gemd_objects[k], a),
                          gemd_objects, k + 1, a)

\* variant: the graph of the previous call is kept
NewDiGraph_kept == G

\* G = nx.DiGraph()
NewDiGraph == EmptyGraph

(***************************************************************************)
(* graph queries: descendants, ancestors, components, sub-graphs           *)
(***************************************************************************)
RECURSIVE Reach(_, _, _)
Reach(edges, frontier, seen) ==
    LET nxt == {e[2] : e \in {x \in edges : x[1] \in frontier}} \ seen
    IN  IF nxt = {} THEN seen ELSE Reach(edges, nxt, seen \cup nxt)

\* nx.descendants(G, n); raises when n is not in G
descendants(g, n) == Reach(g.edges, {n}, {n}) \ {n}

\* nx.ancestors(G, n); raises when n is not in G
ancestors(g, n) == Reach({<<e[2], e[1]>> : e \in g.edges}, {n}, {n}) \ {n}

\* nx.strongly_connected_components(G): the component of each node
StronglyCC(g, n) ==
    {m \in g.nodes : m \in Reach(g.edges, {n}, {n})
                      /\ n \in Reach(g.edges, {m}, {m})}

\* nx.weakly_connected_components(G): the component of each node
WeaklyCC(g, n) ==
    Reach(g.edges \cup {<<e[2], e[1]>> : e \in g.edges}, {n}, {n})

\* variant: the loop runs over the weakly connected components
get_strongly_cc_weakly(g, node) ==
    IF \E n \in g.nodes : node \in WeaklyCC(g, n)
    THEN WeaklyCC(g, node) ELSE {}

\* the first component that holds node, [] after the loop
get_strongly_cc(g, node) ==
    IF \E n \in g.nodes : node \in StronglyCC(g, n)
    THEN StronglyCC(g, node) ELSE {}

get_weakly_cc(g, node) ==
    IF \E n \in g.nodes : node \in WeaklyCC(g, n)
    THEN WeaklyCC(g, node) ELSE {}

ApplyFunc(func, g, n) ==
    CASE func = "descendants" -> descendants(g, n)
      [] func = "ancestors" -> ancestors(g, n)
      [] func = "get_strongly_cc" -> get_strongly_cc(g, n)
      [] func = "get_weakly_cc" -> get_weakly_cc(g, n)

\* G.subgraph(els): the sub-graph induced by the members of els that are
\* nodes of G, with their attributes
subgraph(g, els) ==
    LET keep == g.nodes \cap els
    IN  [nodes |-> keep,
         attrs |-> [n \in keep |-> g.attrs[n]],
         edges |-> {e \in g.edges : e[1] \in keep /\ e[2] \in keep}]

\* func(G, uuid) raises NetworkXError when uuid is not a node of G
FuncRaises(func, g, n) ==
    func \in {"descendants", "ancestors"} /\ n \notin g.nodes

\* variant: the anchor is added whatever add_current says
slice_subgraph_always_anchor(g, uuid, funcs, add_current) ==
    IF \E k \in 1 .. Len(funcs) : FuncRaises(funcs[k], g, uuid)
    THEN [out |-> EmptyGraph, raised |-> TRUE]
    ELSE [out |-> subgraph(g, UNION {ApplyFunc(funcs[k], g, uuid) :
                                       k \in 1 .. Len(funcs)} \cup {uuid}),
          raised |-> FALSE]

slice_subgraph(g, uuid, funcs, add_current) ==
    IF \E k \in 1 .. Len(funcs) : FuncRaises(funcs[k], g, uuid)
    THEN [out |-> EmptyGraph, raised |-> TRUE]   \* func(G, uuid) raises
    ELSE LET els == UNION {ApplyFunc(funcs[k], g, uuid) :
                             k \in 1 .. Len(funcs)}
         IN  [out |-> subgraph(g, IF add_current THEN els \cup {uuid}
                                                  ELSE els),
              raised |-> FALSE]

\* cls.return_uuid(identifier); cls.slice_subgraph(G, uuid, func)
extract_subgraph(g, identifier, func) ==
    slice_subgraph(g, identifier, func, TRUE)

EmptyAGraph == [nodes |-> {}, edges |-> {}]

Relabel(mapping, n) == IF n \in DOMAIN mapping THEN mapping[n] ELSE n

\* nx.relabel_nodes(G, name_mapping) then to_agraph: the nodes and edges of
\* the rendered graph (layout and attributes are the renderer's)
map_to_graphviz(g, mapping) ==
    [nodes |-> {Relabel(mapping, n) : n \in g.nodes},
     edges |-> {<<Relabel(mapping, e[1]), Relabel(mapping, e[2])>> :
                   e \in g.edges}]

\* what diagnostics prints
diagnostics(g, gemd_objects, nb) ==
    [ran |-> TRUE,
     disregarded |-> <<nb, Len(gemd_objects)>>,
     components |-> Cardinality({StronglyCC(g, n) : n \in g.nodes}),
     isolates |-> Cardinality({n \in g.nodes :
                     \A e \in g.edges : e[1] # n /\ e[2] # n})]

(***************************************************************************)
(* Attribute entries handled by the attacher                               *)
(***************************************************************************)
MaxAssets == 3

Owner == "p1"

TagBatch1 == [pystr |-> "batch::1"]

TagBatch2 == [pystr |-> "batch::2"]

PlainString == [pystr |-> "plain"]

ParTemperature ==
    [type |-> "parameter", name |-> "Temperature",
     value |-> [type |-> "nominal_real", nominal |-> 300, units |-> "K"]]

CondTemperature ==
    [type |-> "condition", name |-> "Temperature",
     value |-> [type |-> "nominal_integer", nominal |-> 300]]

PropPurity ==
    [type |-> "property_and_conditions",
     property |-> [name |-> "Purity",
                   value |-> [type |-> "nominal_categorical",
                              category |-> "high"]],
     conditions |-> <<>>]

\* a GEMD value type that handle_gemd_value has no formatting rule for
ParStructure ==
    [type |-> "parameter", name |-> "Structure",
     value |-> [type |-> "inchi", inchi |-> "InChI=1S/H2O"]]

FileLink1 == [type |-> "file_link", url |-> "http://files/1", filename |-> "f1"]

AssetEntries ==
    {TagBatch1, TagBatch2, PlainString, ParTemperature, CondTemperature,
     PropPurity, ParStructure, FileLink1}

IsFormatted(att) ==
    /\ ~IsStr(att)
    /\ att.type \notin {"", "file_link"}
    /\ AttValue(att).type \in SupportedValueTypes

IsUnsupported(att) ==
    /\ ~IsStr(att)
    /\ att.type \notin {"", "file_link"}
    /\ AttValue(att).type \notin SupportedValueTypes

NoArgs ==
    [assets_to_add |-> [add_attributes |-> FALSE, add_file_links |-> FALSE,
                        add_tags |-> FALSE],
     add_separate_node |-> FALSE, which |-> "run", uuid_to_track |-> "auto"]

NoSlice == [uuid |-> Null, funcs |-> <<>>, add_current |-> TRUE, out |-> EmptyGraph]

\* build_graph has not returned / returned None / returned the triple
NoReturn ==
    [kind |-> "pending", G |-> EmptyGraph, relabeled_G |-> EmptyAGraph,
     name_mapping |-> NoAttrs]

NoneReturn == [NoReturn EXCEPT !.kind = "none"]

NoDiag == [ran |-> FALSE, disregarded |-> <<0, 0>>, components |-> 0,
           isolates |-> 0]

\* what the first build_graph call returned and printed
NoFirst == [ret |-> NoReturn, diag |-> NoDiag]

\* the variables a specification does not use keep these values
IdleBuild ==
    /\ name_mapping = NoAttrs
    /\ nb_disregarded = 0
    /\ relabeled_G = EmptyAGraph
    /\ files = {}
    /\ paths = [svg_path |-> Null, dot_path |-> Null]
    /\ diag = NoDiag
    /\ ret = NoReturn
    /\ first = NoFirst
    /\ call = 0
    /\ identifier_G = EmptyGraph

IdleAttach ==
    /\ fed = <<>>
    /\ node_name = Unbound
    /\ before = EmptyGraph

buildVars ==
    <<source, name_mapping, nb_disregarded, relabeled_G, files, paths, diag,
      ret, first, call, identifier_G>>

attachVars == <<fed, node_name, before>>

\* no component query made yet
NoComponents ==
    [node |-> Null,
     strongly |-> [called |-> FALSE, out |-> {}],
     weakly |-> [called |-> FALSE, out |-> {}]]

\* liveGrapher's class attributes mapping = {} and open_graphs = [], and
\* the events on_created has been called with
NoLive ==
    [mapping |-> [x \in {} |-> Null], open_graphs |-> <<>>, events |-> <<>>,
     raised |-> FALSE]

IdleQueries ==
    /\ cc = NoComponents
    /\ live = NoLive

queryVars == <<cc, live>>

(***************************************************************************)
(* SpecAttach: handle_gemd_value calls on one owner node, entry by entry   *)
(***************************************************************************)
InitAttach ==
    /\ pc = "attach"
    /\ G = add_node(EmptyGraph, Owner, [color |-> StrVal("red")])
    /\ \E b \in BOOLEAN : args = [NoArgs EXCEPT !.add_separate_node = b]
    /\ source = <<>>
    /\ IdleAttach
    /\ IdleBuild
    /\ IdleQueries
    /\ sl = NoSlice

\* one iteration of "for att in assets" on the owner node
AttachEntry ==
    /\ pc = "attach"
    /\ Len(fed) < MaxAssets
    /\ \E att \in AssetEntries :
         LET st == handle_att([G |-> G, node_name |-> node_name,
                               raised |-> FALSE],
                              Owner, att, args.add_separate_node)
         IN  /\ G' = st.G
             /\ node_name' = st.node_name
             /\ pc' = IF st.raised THEN "failed" ELSE "attach"
             /\ fed' = Append(fed, att)
             /\ before' = G
    /\ UNCHANGED <<args, sl>>
    /\ UNCHANGED buildVars
    /\ UNCHANGED queryVars

\* handle_gemd_value returns and add_gemd_assets calls it for the next
\* collection: the local node_name starts unbound again
AttachNextCollection ==
    /\ pc = "attach"
    /\ node_name # Unbound
    /\ node_name' = Unbound
    /\ UNCHANGED <<pc, G, args, sl, fed, before>>
    /\ UNCHANGED buildVars
    /\ UNCHANGED queryVars

NextAttach == AttachEntry \/ AttachNextCollection

SpecAttach == InitAttach /\ [][NextAttach]_vars

(***************************************************************************)
(* The records of the model                                                *)
(***************************************************************************)
MaxRecords == 2

PropTemperature ==
    [type |-> "property_and_conditions",
     property |-> [name |-> "Temperature",
                   value |-> [type |-> "nominal_real", nominal |-> 300,
                              units |-> "K"]],
     conditions |-> <<>>]

Link(id) == [id |-> id, scope |-> "auto"]

ProcessRunP1 ==
    [type |-> [prefix |-> "process", suffix |-> "run"],
     uids |-> [auto |-> "p1", custom |-> "lab-p1"], name |-> "Mixing",
     parameters |-> <<ParTemperature>>, conditions |-> <<>>,
     tags |-> <<TagBatch1, TagBatch1>>, file_links |-> <<FileLink1>>]

MaterialRunM1 ==
    [type |-> [prefix |-> "material", suffix |-> "run"],
     uids |-> [auto |-> "m1", custom |-> "lab-m1"], name |-> "Alloy",
     process |-> Link("p1"), tags |-> <<>>, file_links |-> <<>>]

\* a second run of the same process, identified in the same laboratory
ProcessRunP2 ==
    [type |-> [prefix |-> "process", suffix |-> "run"],
     uids |-> [auto |-> "p2", custom |-> "lab-p2"], name |-> "Mixing",
     parameters |-> <<>>, conditions |-> <<>>,
     tags |-> <<>>, file_links |-> <<>>]

\* a material whose JSON carries no "process" key
MaterialRunM2 ==
    [type |-> [prefix |-> "material", suffix |-> "run"],
     uids |-> [auto |-> "m2"], name |-> "Powder",
     tags |-> <<>>, file_links |-> <<>>]

\* a material whose "process" is null
MaterialRunM3 ==
    [type |-> [prefix |-> "material", suffix |-> "run"],
     uids |-> [auto |-> "m3"], name |-> "Ore",
     process |-> NoneLink, tags |-> <<>>, file_links |-> <<>>]

IngredientRunI1 ==
    [type |-> [prefix |-> "ingredient", suffix |-> "run"],
     uids |-> [auto |-> "i1"], name |-> "Alloy",
     process |-> Link("p1"), material |-> Link("m1"),
     tags |-> <<>>, file_links |-> <<>>]

\* an ingredient not linked to a process yet
IngredientRunI2 ==
    [type |-> [prefix |-> "ingredient", suffix |-> "run"],
     uids |-> [auto |-> "i2"], name |-> "Powder",
     process |-> NoneLink, material |-> NoneLink,
     tags |-> <<>>, file_links |-> <<>>]

MeasurementRunMe1 ==
    [type |-> [prefix |-> "measurement", suffix |-> "run"],
     uids |-> [auto |-> "me1"], name |-> "Pyrometry",
     material |-> Link("m1"),
     parameters |-> <<>>, properties |-> <<PropTemperature>>,
     conditions |-> <<>>, tags |-> <<PlainString>>, file_links |-> <<>>]

ProcessSpecPS1 ==
    [type |-> [prefix |-> "process", suffix |-> "spec"],
     uids |-> [auto |-> "ps1", custom |-> "lab-ps1"], name |-> "Mixing",
     parameters |-> <<>>, conditions |-> <<CondTemperature>>,
     tags |-> <<TagBatch2>>, file_links |-> <<>>]

ParameterTemplatePT1 ==
    [type |-> [prefix |-> "parameter", suffix |-> "template"],
     uids |-> [auto |-> "pt1"], name |-> "Temperature"]

\* an entry of the raw_jsons dump
RawJsons == [raw_jsons |-> TRUE]

\* a file holding a list (a full material history)
ListPayload == [pylist |-> TRUE]

Records ==
    {ProcessRunP1, ProcessRunP2, MaterialRunM1, MaterialRunM2, MaterialRunM3,
     IngredientRunI1, IngredientRunI2, MeasurementRunMe1, ProcessSpecPS1, ParameterTemplatePT1, RawJsons,
     ListPayload}

Distinct(s) == \A i, j \in DOMAIN s : i # j => s[i] # s[j]

\* the fixture of one material, the process that makes it and the
\* ingredient that uses both, in every directory order
Fixtures ==
    {s \in [1 .. 3 -> {MaterialRunM1, ProcessRunP1, IngredientRunI1}] :
        Distinct(s)}

\* the ordered contents of a directory: distinct entries, in any order
Sources ==
    {s \in UNION {[1 .. n -> Records] : n \in 0 .. MaxRecords} : Distinct(s)}
    \cup Fixtures

Arguments ==
    [assets_to_add : [add_attributes : BOOLEAN, add_file_links : BOOLEAN,
                      add_tags : BOOLEAN],
     add_separate_node : BOOLEAN,
     which : {"run", "spec"},
     uuid_to_track : {"auto", "custom"}]

Identifiers == {"p1"}

(***************************************************************************)
(* Spec: build_graph on one OpenGraph, called once or twice, and the       *)
(* identifier-scoped export of run_from_command_line after the first call  *)
(***************************************************************************)
Init ==
    /\ pc = "start"
    /\ G = EmptyGraph
    /\ args \in Arguments
    /\ source \in Sources
    /\ IdleBuild
    /\ IdleAttach
    /\ IdleQueries
    /\ sl = NoSlice

\* build_graph up to the loop: fresh locals, read_gemd_data, and the
\* return of None for an empty collection
BuildGraphCall ==
    /\ pc \in {"start", "returned"}
    /\ call < 2
    /\ call' = call + 1
    /\ G' = NewDiGraph
    /\ name_mapping' = NoAttrs
    /\ nb_disregarded' = 0
    /\ relabeled_G' = EmptyAGraph
    /\ files' = {}
    /\ diag' = NoDiag
    /\ IF Len(source) = 0
       THEN /\ ret' = NoneReturn
            /\ first' = IF call = 0
                        THEN [ret |-> NoneReturn, diag |-> NoDiag]
                        ELSE first
            /\ pc' = "returned"
       ELSE /\ ret' = NoReturn
            /\ first' = first
            /\ pc' = "loop"
    /\ UNCHANGED <<args, source, paths, identifier_G, sl>>
    /\ UNCHANGED attachVars
    /\ UNCHANGED queryVars

\* the loop over gemd_objects; an exception of a handler ends the pass
AddObjects ==
    /\ pc = "loop"
    /\ LET st == add_objects_from(
                     [G |-> G, name_mapping |-> name_mapping,
                      nb_disregarded |-> nb_disregarded, raised |-> FALSE],
                     source, 1, args)
       IN  /\ G' = st.G
           /\ name_mapping' = st.name_mapping
           /\ nb_disregarded' = st.nb_disregarded
           /\ pc' = IF st.raised THEN "failed" ELSE "relabel"
    /\ UNCHANGED <<args, source, relabeled_G, files, paths, diag, ret, first,
                   call, identifier_G, sl>>
    /\ UNCHANGED attachVars
    /\ UNCHANGED queryVars

\* relabeled_G = self.map_to_graphviz(G, name_mapping)
MapToGraphviz ==
    /\ pc = "relabel"
    /\ relabeled_G' = map_to_graphviz(G, name_mapping)
    /\ pc' = "draw_svg"
    /\ UNCHANGED <<G, args, source, name_mapping, nb_disregarded, files, paths,
                   diag, ret, first, call, identifier_G, sl>>
    /\ UNCHANGED attachVars
    /\ UNCHANGED queryVars

SvgName(name) == name \o ".svg"

DotName(name) == name \o ".dot"

GraphName == args.which \o "_graph"

\* save_graph: G.draw(svg_path)
DrawSvg ==
    /\ pc = "draw_svg"
    /\ files' = files \cup {SvgName(GraphName)}
    /\ pc' = "write_dot"
    /\ UNCHANGED <<G, args, source, name_mapping, nb_disregarded, relabeled_G,
                   paths, diag, ret, first, call, identifier_G, sl>>
    /\ UNCHANGED attachVars
    /\ UNCHANGED queryVars

\* save_graph: open(dot_path, "w") and f.write(str(G))
WriteDot ==
    /\ pc = "write_dot"
    /\ files' = files \cup {DotName(GraphName)}
    /\ pc' = "saved"
    /\ UNCHANGED <<G, args, source, name_mapping, nb_disregarded, relabeled_G,
                   paths, diag, ret, first, call, identifier_G, sl>>
    /\ UNCHANGED attachVars
    /\ UNCHANGED queryVars

\* the layout program or the file system fails: layout, draw and open raise
RenderFails ==
    /\ pc \in {"relabel", "draw_svg", "write_dot",
               "sub_relabel", "sub_draw_svg", "sub_write_dot"}
    /\ pc' = "failed"
    /\ UNCHANGED <<G, args, source, name_mapping, nb_disregarded, relabeled_G,
                   files, paths, diag, ret, first, call, identifier_G, sl>>
    /\ UNCHANGED attachVars
    /\ UNCHANGED queryVars

\* update_paths, diagnostics and the return of the triple
FinishBuild ==
    /\ pc = "saved"
    /\ paths' = [svg_path |-> SvgName(GraphName),
                 dot_path |-> DotName(GraphName)]
    /\ diag' = diagnostics(G, source, nb_disregarded)
    /\ ret' = [kind |-> "tuple", G |-> G, relabeled_G |-> relabeled_G,
               name_mapping |-> name_mapping]
    /\ first' = IF call = 1 THEN [ret |-> ret', diag |-> diag'] ELSE first
    /\ pc' = "returned"
    /\ UNCHANGED <<G, args, source, name_mapping, nb_disregarded, relabeled_G,
                   files, call, identifier_G, sl>>
    /\ UNCHANGED attachVars
    /\ UNCHANGED queryVars

\* run_from_command_line: G, relabeled_G, name_mapping = viewer.build_graph()
\* cannot unpack None
UnpackNone ==
    /\ pc = "returned"
    /\ call = 1
    /\ ret.kind = "none"
    /\ pc' = "failed"
    /\ UNCHANGED <<G, args, source, name_mapping, nb_disregarded, relabeled_G,
                   files, paths, diag, ret, first, call, identifier_G, sl>>
    /\ UNCHANGED attachVars
    /\ UNCHANGED queryVars

\* run_from_command_line without an identifier
NoIdentifier ==
    /\ pc = "returned"
    /\ call = 1
    /\ ret.kind = "tuple"
    /\ pc' = "done"
    /\ UNCHANGED <<G, args, source, name_mapping, nb_disregarded, relabeled_G,
                   files, paths, diag, ret, first, call, identifier_G, sl>>
    /\ UNCHANGED attachVars
    /\ UNCHANGED queryVars

\* run_from_command_line with an identifier: extract_subgraph
ExtractSubgraph ==
    /\ pc = "returned"
    /\ call = 1
    /\ ret.kind = "tuple"
    /\ \E identifier \in Identifiers, a \in BOOLEAN, d \in BOOLEAN :
         LET functions == (IF d THEN <<"descendants">> ELSE <<>>)
                          \o (IF a THEN <<"ancestors">> ELSE <<>>)
             r == extract_subgraph(ret.G, identifier, functions)
         IN  /\ sl' = [uuid |-> identifier, funcs |-> functions,
                       add_current |-> TRUE, out |-> r.out]
             /\ identifier_G' = r.out
             /\ pc' = IF r.raised THEN "failed" ELSE "sub_relabel"
    /\ UNCHANGED <<G, args, source, name_mapping, nb_disregarded, relabeled_G,
                   files, paths, diag, ret, first, call>>
    /\ UNCHANGED attachVars
    /\ UNCHANGED queryVars

\* identifier_G = cls.map_to_graphviz(identifier_G, name_mapping)
SubMapToGraphviz ==
    /\ pc = "sub_relabel"
    /\ relabeled_G' = map_to_graphviz(identifier_G, ret.name_mapping)
    /\ pc' = "sub_draw_svg"
    /\ UNCHANGED <<G, args, source, name_mapping, nb_disregarded, files, paths,
                   diag, ret, first, call, identifier_G, sl>>
    /\ UNCHANGED attachVars
    /\ UNCHANGED queryVars

SubDrawSvg ==
    /\ pc = "sub_draw_svg"
    /\ files' = files \cup {SvgName(sl.uuid)}
    /\ pc' = "sub_write_dot"
    /\ UNCHANGED <<G, args, source, name_mapping, nb_disregarded, relabeled_G,
                   paths, diag, ret, first, call, identifier_G, sl>>
    /\ UNCHANGED attachVars
    /\ UNCHANGED queryVars

SubWriteDot ==
    /\ pc = "sub_write_dot"
    /\ files' = files \cup {DotName(sl.uuid)}
    /\ pc' = "done"
    /\ UNCHANGED <<G, args, source, name_mapping, nb_disregarded, relabeled_G,
                   paths, diag, ret, first, call, identifier_G, sl>>
    /\ UNCHANGED attachVars
    /\ UNCHANGED queryVars

Next ==
    \/ BuildGraphCall
    \/ AddObjects
    \/ MapToGraphviz
    \/ DrawSvg
    \/ WriteDot
    \/ RenderFails
    \/ FinishBuild
    \/ UnpackNone
    \/ NoIdentifier
    \/ ExtractSubgraph
    \/ SubMapToGraphviz
    \/ SubDrawSvg
    \/ SubWriteDot

Spec == Init /\ [][Next]_vars

(***************************************************************************)
(* Claims on the attacher                                                  *)
(***************************************************************************)
IsTag(att) == IsStr(att) /\ HasSeparator(att.pystr)

TagsFed == SelectSeq(fed, IsTag)

\* C3: after n tag insertions on the owner node its `tags` attribute is the
\* mapping {0: v1, ..., n-1: vn} in insertion order: nothing is overwritten
\* and equal values are kept; without any tag there is no `tags` attribute.
C3_TagsIndexedInOrder ==
    pc \in {"attach", "failed"} =>
        LET n == Len(TagsFed)
        IN  IF n = 0
            THEN "tags" \notin DOMAIN G.attrs[Owner]
            ELSE /\ "tags" \in DOMAIN G.attrs[Owner]
                 /\ G.attrs[Owner]["tags"] =
                        DictVal([k \in 0 .. n - 1 |-> TagsFed[k + 1].pystr])

C3_Witness ==
    /\ pc = "attach"
    /\ Len(TagsFed) = 3
    /\ TagsFed[1] = TagsFed[2]
    /\ TagsFed[3] # TagsFed[1]
    /\ G.attrs[Owner]["tags"].map[2] = TagsFed[3].pystr

FormattedFed(n) ==
    SelectSeq(fed, LAMBDA a : IsFormatted(a) /\ AttName(a) = n)

\* C4: inline mode, a name other than tags/file_links: when a second value
\* arrives under the same name nothing is raised and the attribute becomes
\* the index->value mapping of all values received under that name.
C4_SecondValueBecomesMapping ==
    (/\ pc \in {"attach", "failed"}
     /\ ~args.add_separate_node
     /\ \A k \in 1 .. Len(fed) : IsFormatted(fed[k]))
    => \A n \in {AttName(fed[k]) : k \in 1 .. Len(fed)} :
          LET vals == FormattedFed(n)
          IN  Len(vals) >= 2 =>
                /\ pc # "failed"
                /\ G.attrs[Owner][n] =
                     DictVal([k \in 0 .. Len(vals) - 1 |->
                                 FormatValue(n, AttValue(vals[k + 1]))])

\* C5: an entry whose value type has no formatting rule changes nothing in
\* the graph and raises nothing, first in the collection or not.
C5_UnsupportedIgnored ==
    (/\ pc \in {"attach", "failed"}
     /\ fed # <<>>
     /\ IsUnsupported(fed[Len(fed)]))
    => (pc # "failed" /\ G = before)

(***************************************************************************)
(* Claims on build_graph                                                   *)
(***************************************************************************)
StructuralKinds == {"process", "ingredient", "material", "measurement"}

\* the record reaches handle_gemd_obj and its type passes the kind filter
Eligible(obj, a) ==
    /\ "raw_jsons" \notin DOMAIN obj
    /\ "pylist" \notin DOMAIN obj
    /\ ~Disregarded(obj.type)
    /\ a.uuid_to_track \in DOMAIN obj.uids
    /\ obj.type.prefix \in StructuralKinds
    /\ obj.type.suffix = a.which

Uid(obj) == obj.uids[args.uuid_to_track]

Returned == pc = "returned" /\ ret.kind = "tuple"

\* C1: every node of the returned graph is the tracked identifier of exactly
\* one eligible input record (attribute values kept inline, so that only
\* records can make nodes); an identifier that is only referenced makes no
\* node.
C1_NodesAreEligibleRecords ==
    (Returned /\ ~args.add_separate_node) =>
        \A n \in ret.G.nodes :
            Cardinality({k \in DOMAIN source :
                            Eligible(source[k], args) /\ Uid(source[k]) = n}) = 1

\* C2: for every processed ingredient of process P and material M the graph
\* has ingredient -> P and M -> ingredient and neither reverse edge; a
\* processed material of process P gives P -> material, a processed
\* measurement of material M gives measurement -> M; the fixture m1, p1, i1
\* gives exactly p1 -> m1, i1 -> p1, m1 -> i1.
C2_EdgeDirections ==
    Returned =>
        /\ \A k \in DOMAIN source :
             LET o == source[k]
             IN  Eligible(o, args) =>
                   /\ (o.type.prefix = "ingredient") =>
                        /\ <<Uid(o), o.process.id>> \in ret.G.edges
                        /\ <<o.process.id, Uid(o)>> \notin ret.G.edges
                        /\ Truthy(o.material) =>
                             /\ <<o.material.id, Uid(o)>> \in ret.G.edges
                             /\ <<Uid(o), o.material.id>> \notin ret.G.edges
                   /\ (o.type.prefix = "material" /\ Truthy(o.process)) =>
                        <<o.process.id, Uid(o)>> \in ret.G.edges
                   /\ (o.type.prefix = "measurement" /\ Truthy(o.material)) =>
                        <<Uid(o), o.material.id>> \in ret.G.edges
        /\ (/\ source \in Fixtures
            /\ args.which = "run"
            /\ args.uuid_to_track = "auto"
            /\ ~(args.add_separate_node /\ args.assets_to_add.add_attributes))
           => ret.G.edges = {<<"p1", "m1">>, <<"i1", "p1">>, <<"m1", "i1">>}

C2_Witness ==
    /\ Returned
    /\ source \in Fixtures
    /\ args.which = "run"
    /\ args.uuid_to_track = "auto"
    /\ ret.G.nodes = {"m1", "p1", "i1"}
    /\ ret.G.edges = {<<"p1", "m1">>, <<"i1", "p1">>, <<"m1", "i1">>}

NoAssets ==
    [add_attributes |-> FALSE, add_file_links |-> FALSE, add_tags |-> FALSE]

\* the nodes the records and their references make: the build without any
\* attribute, file link or tag
StructuralNodes ==
    add_objects_from([G |-> EmptyGraph, name_mapping |-> NoAttrs,
                      nb_disregarded |-> 0, raised |-> FALSE],
                     source, 1, [args EXCEPT !.assets_to_add = NoAssets]).G.nodes

Entries(obj, name) == IF name \in DOMAIN obj THEN obj[name] ELSE <<>>

\* the attribute entries of a record that are formatted into a string
AttributeEntries(obj) ==
    IF args.assets_to_add.add_attributes
    THEN SelectSeq(Entries(obj, "parameters") \o Entries(obj, "properties")
                   \o Entries(obj, "conditions"), IsFormatted)
    ELSE <<>>

LinkEntries(obj) ==
    IF args.assets_to_add.add_file_links
    THEN SelectSeq(Entries(obj, "file_links"),
                   LAMBDA a : ~IsStr(a) /\ a.type = "file_link")
    ELSE <<>>

TagEntries(obj) ==
    IF args.assets_to_add.add_tags
    THEN SelectSeq(Entries(obj, "tags"), IsTag)
    ELSE <<>>

RECURSIVE SumOver(_, _)
SumOver(f, S) ==
    IF S = {} THEN 0
    ELSE LET x == CHOOSE y \in S : TRUE IN f[x] + SumOver(f, S \ {x})

Processed == {k \in DOMAIN source : Eligible(source[k], args)}

ValueNodes ==
    {FormatValue(AttName(a), AttValue(a)) :
        a \in UNION {{AttributeEntries(source[k])[i] :
                        i \in 1 .. Len(AttributeEntries(source[k]))} :
                     k \in Processed}}

C7_SecondBuildEqualsFirst ==
    (pc = "returned" /\ call = 2) => (ret = first.ret /\ diag = first.diag)

C7_Witness ==
    /\ pc = "returned"
    /\ call = 2
    /\ ret.kind = "tuple"
    /\ diag.disregarded[1] = 1
    /\ \E n \in ret.G.nodes :
          /\ "tags" \in DOMAIN ret.G.attrs[n]
          /\ DOMAIN ret.G.attrs[n]["tags"].map = {0, 1}

\* C9: when no record is eligible, build_graph returns None: it does not go
\* on to render, writes no artifact and does not run the diagnostics.
C9_NoEligibleRecordReturnsNone ==
    (Processed = {} /\ call >= 1) =>
        /\ pc \notin {"relabel", "draw_svg", "write_dot", "saved"}
        /\ files = {}
        /\ ~diag.ran
        /\ pc = "returned" => ret.kind = "none"

\* C10: a pass that failed has written no .svg and no .dot file.
C10_FailedPassWroteNothing ==
    pc = "failed" => files = {}

(***************************************************************************)
(* SpecSlice: slice_subgraph called on a graph of up to three nodes        *)
(***************************************************************************)
MaxFuncs == 2

SliceNodes == {"A", "B", "C"}

SliceGraphs ==
    UNION {{[nodes |-> N, attrs |-> [n \in N |-> NoAttrs], edges |-> E] :
               E \in SUBSET (N \X N)} : N \in SUBSET SliceNodes}

Funcs == {"descendants", "ancestors", "get_strongly_cc", "get_weakly_cc"}

FuncLists ==
    {f \in UNION {[1 .. n -> Funcs] : n \in 0 .. MaxFuncs} : Distinct(f)}

Chain ==
    [nodes |-> {"A", "B", "C"}, attrs |-> [n \in {"A", "B", "C"} |-> NoAttrs],
     edges |-> {<<"A", "B">>, <<"B", "C">>}]

InitSlice ==
    /\ pc = "slice"
    /\ G \in SliceGraphs
    /\ before = G
    /\ \E u \in SliceNodes \cup {"Z"}, f \in FuncLists, b \in BOOLEAN :
         sl = [uuid |-> u, funcs |-> f, add_current |-> b, out |-> EmptyGraph]
    /\ args = NoArgs
    /\ source = <<>>
    /\ IdleBuild
    /\ IdleQueries
    /\ fed = <<>>
    /\ node_name = Unbound

\* cls.slice_subgraph(G, uuid, funcs, add_current)
SliceSubgraph ==
    /\ pc = "slice"
    /\ LET r == slice_subgraph(G, sl.uuid, sl.funcs, sl.add_current)
       IN  /\ sl' = [sl EXCEPT !.out = r.out]
           /\ pc' = IF r.raised THEN "failed" ELSE "sliced"
    /\ UNCHANGED <<G, args, fed, node_name, before>>
    /\ UNCHANGED buildVars
    /\ UNCHANGED queryVars

NextSlice == SliceSubgraph

SpecSlice == InitSlice /\ [][NextSlice]_vars

(***************************************************************************)
(* Claims on slice_subgraph                                                *)
(***************************************************************************)
\* a walk of at least one edge from u to v
HasPath(edges, nodes, u, v) ==
    \E n \in 2 .. Cardinality(nodes) + 1 :
        \E p \in [1 .. n -> nodes] :
            /\ p[1] = u
            /\ p[n] = v
            /\ \A i \in 1 .. n - 1 : <<p[i], p[i + 1]>> \in edges

Undirected(edges) == edges \cup {<<e[2], e[1]>> : e \in edges}

\* node m is in func(G, anchor), by the definition of the graph notion
Selects(func, g, anchor, m) ==
    CASE func = "descendants" -> m # anchor /\ HasPath(g.edges, g.nodes, anchor, m)
      [] func = "ancestors" -> m # anchor /\ HasPath(g.edges, g.nodes, m, anchor)
      [] func = "get_strongly_cc" ->
            anchor \in g.nodes /\
            (m = anchor \/ (/\ HasPath(g.edges, g.nodes, anchor, m)
                            /\ HasPath(g.edges, g.nodes, m, anchor)))
      [] func = "get_weakly_cc" ->
            anchor \in g.nodes /\
            (m = anchor \/ HasPath(Undirected(g.edges), g.nodes, anchor, m))

\* C8: slice_subgraph returns the sub-graph of G induced by the union of
\* func(G, anchor) over funcs, plus the anchor exactly when add_current is
\* true or some func returns it; on the chain A->B->C anchored at C with
\* funcs = [ancestors] the nodes are {A, B, C} with add_current and {A, B}
\* without; G is left as it was.
C8_SliceIsInducedUnion ==
    pc = "sliced" =>
        /\ sl.out.nodes =
              {m \in G.nodes :
                  \/ sl.add_current /\ m = sl.uuid
                  \/ \E k \in 1 .. Len(sl.funcs) :
                        Selects(sl.funcs[k], G, sl.uuid, m)}
        /\ sl.out.edges =
              {e \in G.edges : e[1] \in sl.out.nodes /\ e[2] \in sl.out.nodes}
        /\ G = before
        /\ (G = Chain /\ sl.uuid = "C" /\ sl.funcs = <<"ancestors">>) =>
              sl.out.nodes = IF sl.add_current THEN {"A", "B", "C"}
                                               ELSE {"A", "B"}

C8_Witness ==
    /\ pc = "sliced"
    /\ G = Chain
    /\ sl.uuid = "C"
    /\ sl.funcs = <<"ancestors">>
    /\ ~sl.add_current
    /\ sl.out.nodes = {"A", "B"}
    /\ sl.out.edges = {<<"A", "B">>}

(***************************************************************************)
(* SpecComponents: get_strongly_cc and get_weakly_cc called on a graph of  *)
(* up to three nodes, for a node of the graph or a node that is not in it  *)
(***************************************************************************)
\* A <-> B -> C: one strongly connected pair inside one weak component
Lasso ==
    [nodes |-> {"A", "B", "C"}, attrs |-> [n \in {"A", "B", "C"} |-> NoAttrs],
     edges |-> {<<"A", "B">>, <<"B", "A">>, <<"B", "C">>}]

InitComponents ==
    /\ pc = "components"
    /\ G \in SliceGraphs
    /\ before = G
    /\ \E n \in SliceNodes \cup {"Z"} : cc = [NoComponents EXCEPT !.node = n]
    /\ live = NoLive
    /\ args = NoArgs
    /\ source = <<>>
    /\ IdleBuild
    /\ fed = <<>>
    /\ node_name = Unbound
    /\ sl = NoSlice

\* self.get_strongly_cc(G, node)
GetStronglyCC ==
    /\ pc = "components"
    /\ ~cc.strongly.called
    /\ cc' = [cc EXCEPT !.strongly =
                  [called |-> TRUE, out |-> get_strongly_cc(G, cc.node)]]
    /\ UNCHANGED <<pc, G, args, fed, node_name, before, sl, live>>
    /\ UNCHANGED buildVars

\* self.get_weakly_cc(G, node)
GetWeaklyCC ==
    /\ pc = "components"
    /\ ~cc.weakly.called
    /\ cc' = [cc EXCEPT !.weakly =
                  [called |-> TRUE, out |-> get_weakly_cc(G, cc.node)]]
    /\ UNCHANGED <<pc, G, args, fed, node_name, before, sl, live>>
    /\ UNCHANGED buildVars

NextComponents == GetStronglyCC \/ GetWeaklyCC

SpecComponents == InitComponents /\ [][NextComponents]_vars

(***************************************************************************)
(* Claims on get_strongly_cc / get_weakly_cc                               *)
(***************************************************************************)
\* C is the component of n for the reachability relation over edges: it
\* holds n, any two of its members reach each other, and no node outside
\* it is tied to n in both directions
IsComponentOf(C, edges, nodes, n) ==
    /\ n \in C
    /\ C \subseteq nodes
    /\ \A u, v \in C : u = v \/ (/\ HasPath(edges, nodes, u, v)
                                  /\ HasPath(edges, nodes, v, u))
    /\ \A m \in nodes \ C : ~(/\ HasPath(edges, nodes, n, m)
                               /\ HasPath(edges, nodes, m, n))

\* C11: for a node n of G, get_strongly_cc(G, n) is the strongly connected
\* component of G that holds n and get_weakly_cc(G, n) the weakly connected
\* component that holds n; for a node that is not in G both return an empty
\* collection; neither raises nor changes G.
C11_ComponentOf ==
    /\ cc.strongly.called =>
          IF cc.node \in G.nodes
          THEN IsComponentOf(cc.strongly.out, G.edges, G.nodes, cc.node)
          ELSE cc.strongly.out = {}
    /\ cc.weakly.called =>
          IF cc.node \in G.nodes
          THEN IsComponentOf(cc.weakly.out, Undirected(G.edges), G.nodes,
                             cc.node)
          ELSE cc.weakly.out = {}
    /\ G = before

C11_Witness ==
    /\ G = Lasso
    /\ cc.node = "A"
    /\ cc.strongly.called
    /\ cc.weakly.called
    /\ cc.strongly.out = {"A", "B"}
    /\ cc.weakly.out = {"A", "B", "C"}

(***************************************************************************)
(* Claims on optional cross-references                                     *)
(***************************************************************************)
HasReference(obj, key) == key \in DOMAIN obj /\ Truthy(obj[key])

ProcessedOf(kind) == {k \in Processed : source[k].type.prefix = kind}

\* every processed ingredient names its process, and no attribute, tag or
\* file link is attached: only a material's references are left to matter
OnlyMaterialReferencesOpen ==
    /\ args.assets_to_add = NoAssets
    /\ \A k \in ProcessedOf("ingredient") : HasReference(source[k], "process")

\* C12: the loop of build_graph over records of which some material
\* references no process (key absent, or null) runs to its end; each
\* processed material has its node, with the edge process -> material when
\* it references a process and with no edge from a process otherwise.
C12_MaterialWithoutProcess ==
    [][(pc = "loop" /\ OnlyMaterialReferencesOpen) =>
          /\ pc' = "relabel"
          /\ \A k \in ProcessedOf("material") :
                /\ Uid(source[k]) \in G'.nodes
                /\ IF HasReference(source[k], "process")
                   THEN <<source[k].process.id, Uid(source[k])>> \in G'.edges
                   ELSE \A e \in G'.edges :
                           e[2] = Uid(source[k]) =>
                              \E j \in ProcessedOf("measurement") :
                                 /\ HasReference(source[j], "material")
                                 /\ e = <<Uid(source[j]),
                                          source[j].material.id>>]_vars

(***************************************************************************)
(* liveGrapher (openmsimodel/interactive/live_grapher.py): the handler of  *)
(* filesystem create events                                                *)
(***************************************************************************)
MaxEvents == 3

\* the watched folder's events: a sub-directory, two files of one
\* extension and a file of another
Events ==
    {[is_directory |-> TRUE, src_path |-> "live_grapher_input/batch"],
     [is_directory |-> FALSE, src_path |-> "live_grapher_input/run1.csv"],
     [is_directory |-> FALSE, src_path |-> "live_grapher_input/run2.csv"],
     [is_directory |-> FALSE, src_path |-> "live_grapher_input/notes.txt"]}

\* os.path.splitext(filepath)[1] for the paths of the model
splitext(filepath) ==
    CASE filepath \in {"live_grapher_input/run1.csv",
                       "live_grapher_input/run2.csv"} -> ".csv"
      [] filepath = "live_grapher_input/notes.txt" -> ".txt"
      [] OTHER -> ""

\* what the user answers to the four input() prompts of define_spec
PromptAnswers == {"Alloy", "Mixing"}

\* the parameters OpenGraph.__init__(self, dirpath) takes
InitParameters == {"dirpath"}

\* the keyword arguments dump_graph passes to OpenGraph(...)
DumpGraphKeywords ==
    {"name", "science_kit", "source", "output", "which", "dump_svg_and_dot"}

\* binding a call's keywords to a signature: TypeError on a keyword the
\* signature does not have or a parameter left without a value
BindsTo(keywords, parameters) == keywords = parameters

\* define_run(mapping): the assets of a fresh run of the registered
\* material, process, ingredients and measurements
define_run(entry) == [assets |-> entry]

\* define_spec(file_extension, mapping, output): registers the extension
\* and returns the run's assets
define_spec(file_extension, mapping, answers) ==
    LET entry == [material |-> answers[2], process |-> answers[3],
                  ingredients |-> <<answers[4]>>,
                  measurements |-> <<answers[1]>>]
    IN  [mapping |-> (file_extension :> entry) @@ mapping,
         out |-> define_run(entry)]

\* dump_graph(to_be_visualized, output): OpenGraph(name=..., ...) then
\* open_graph.build_graph(save=True)
dump_graph(to_be_visualized, output) ==
    IF BindsTo(DumpGraphKeywords, InitParameters)
    THEN [raised |-> FALSE,
          open_graph |-> [source |-> to_be_visualized, output |-> output]]
    ELSE [raised |-> TRUE,
          open_graph |-> [source |-> to_be_visualized, output |-> output]]

output_folder == "./live_grapher_output"

\* liveGrapher.on_created(event), with the answers typed at the prompts
on_created(lv, event, answers) ==
    LET handled == [lv EXCEPT !.events = Append(@, event)]
    IN  IF event.is_directory THEN [handled EXCEPT !.raised = FALSE]
        ELSE LET file_extension == splitext(event.src_path)
                 known == file_extension \in DOMAIN lv.mapping
                 spec == define_spec(file_extension, lv.mapping, answers)
                 mapping1 == IF known THEN lv.mapping ELSE spec.mapping
                 to_be_visualized ==
                     IF known THEN define_run(lv.mapping[file_extension])
                     ELSE spec.out
                 r == dump_graph(to_be_visualized, output_folder)
             IN  IF r.raised
                 THEN [handled EXCEPT !.mapping = mapping1, !.raised = TRUE]
                 ELSE [handled EXCEPT !.mapping = mapping1,
                                      !.raised = FALSE,
                                      !.open_graphs = Append(@, r.open_graph)]

InitLive ==
    /\ pc = "watching"
    /\ G = EmptyGraph
    /\ args = NoArgs
    /\ source = <<>>
    /\ IdleBuild
    /\ IdleAttach
    /\ IdleQueries
    /\ sl = NoSlice

\* the observer hands one create event to the handler
OnCreated ==
    /\ pc = "watching"
    /\ Len(live.events) < MaxEvents
    /\ \E event \in Events, answers \in [1 .. 4 -> PromptAnswers] :
          live' = on_created(live, event, answers)
    /\ UNCHANGED <<pc, G, args, sl, cc>>
    /\ UNCHANGED buildVars
    /\ UNCHANGED attachVars

NextLive == OnCreated

SpecLive == InitLive /\ [][NextLive]_vars

(***************************************************************************)
(* Claims on liveGrapher                                                   *)
(***************************************************************************)
LastEvent(lv) == lv.events[Len(lv.events)]

\* C13: each create event handled: a directory event changes neither
\* mapping nor open_graphs; a file event completes, appends exactly one
\* graph to open_graphs, registers its extension when it is new and leaves
\* every registered entry as it was.
C13_FileEventAppendsOneGraph ==
    [][Len(live'.events) = Len(live.events) + 1 =>
          IF LastEvent(live').is_directory
          THEN /\ live'.mapping = live.mapping
               /\ live'.open_graphs = live.open_graphs
          ELSE /\ ~live'.raised
               /\ Len(live'.open_graphs) = Len(live.open_graphs) + 1
               /\ DOMAIN live'.mapping =
                     DOMAIN live.mapping
                        \cup {splitext(LastEvent(live').src_path)}
               /\ \A x \in DOMAIN live.mapping :
                     live'.mapping[x] = live.mapping[x]]_vars

(***************************************************************************)
(* Claims on relabeling                                                    *)
(***************************************************************************)
\* C14: the relabeled copy build_graph returns has as many nodes and edges
\* as G: the name mapping sends distinct nodes of G to distinct labels, so
\* that relabeling merges no two nodes; the uid-keyed G is returned as the
\* loop left it.
C14_RelabelingPreservesShape ==
    Returned =>
        /\ Cardinality(ret.relabeled_G.nodes) = Cardinality(ret.G.nodes)
        /\ Cardinality(ret.relabeled_G.edges) = Cardinality(ret.G.edges)
        /\ \A u, v \in ret.G.nodes :
              u # v => Relabel(ret.name_mapping, u) # Relabel(ret.name_mapping, v)
        /\ ret.G = G

====
